---- MODULE Spec2Model ----
(***************************************************************************)
(* Model of browse-ocrd's PAGE-XML overlay renderer                        *)
(* (ocrd_browser/model/page_xml_renderer.py): the tree walk of             *)
(* PageXmlRenderer, the depth-keyed batch Operations, its paint pass and   *)
(* the RegionMap used for hit-testing; and of the page view that shows the *)
(* overlay (ocrd_browser/view/page.py).                                    *)
(***************************************************************************)
EXTENDS Integers, Sequences, FiniteSets, TLC

None == "None"

(***************************************************************************)
(* Bounds of the model.                                                    *)
(***************************************************************************)
\* largest number of layout nodes (PrintSpace, Border, regions, lines,
\* words, glyphs) of a page
MaxNodes == 4
\* largest number of render_all calls batched before one get_canvas
MaxPending == 2
\* largest number of rescale callbacks waiting in the idle queue
MaxIdle == 2
\* largest number of pages of the document the page list shows
MaxPages == 3

(***************************************************************************)
(* The PAGE document (ocrd_models objects, read-only to the renderer).     *)
(* A page is drawn from the sub-documents of one sample page: a            *)
(* PrintSpace, a Border, a TextRegion r1 holding line l1, word w1 and      *)
(* glyph g1, and an ImageRegion r2.                                        *)
(***************************************************************************)
Regions == {"ps", "bd", "r1", "l1", "w1", "g1", "r2"}

ClassName ==
    [ps |-> "PrintSpaceType", bd |-> "BorderType", r1 |-> "TextRegionType",
     l1 |-> "TextLineType", w1 |-> "WordType", g1 |-> "GlyphType",
     r2 |-> "ImageRegionType"]

\* region.__class__.__name__[:-4], and .replace('Type', '') on these names
StripType ==
    [PrintSpaceType |-> "PrintSpace", BorderType |-> "Border",
     TextRegionType |-> "TextRegion", TextLineType |-> "TextLine",
     WordType |-> "Word", GlyphType |-> "Glyph",
     ImageRegionType |-> "ImageRegion"]

\* the objects that have an attribute parent_object_, and its value
parent_object_ ==
    [ps |-> "Page", bd |-> "Page", r1 |-> "Page", r2 |-> "Page",
     l1 |-> "r1", w1 |-> "l1", g1 |-> "w1", Page |-> "PcGts"]

\* hasattr(segment, 'id'): Border and PrintSpace carry no id
HasId == Regions \ {"ps", "bd"}

\* the owned children of the sample page's containers, in document order
ChildrenOf ==
    [ps |-> <<>>, bd |-> <<>>, r1 |-> <<"l1">>, l1 |-> <<"w1">>,
     w1 |-> <<"g1">>, g1 |-> <<>>, r2 |-> <<>>]

(***************************************************************************)
(* Polygons (shapely.geometry.Polygon) by the attributes the code reads.   *)
(* bounds is <<minx, miny, maxx, maxy>>; ring stands for the coordinate    *)
(* list.                                                                   *)
(***************************************************************************)
Rect(ring, x0, y0, x1, y1) ==
    [ring |-> ring, is_valid |-> TRUE, is_empty |-> FALSE,
     bounds |-> <<x0, y0, x1, y1>>, length |-> 2 * ((x1 - x0) + (y1 - y0)),
     explain |-> "Valid Geometry"]

\* Python's None where a polygon is expected
NonePoly ==
    [ring |-> None, is_valid |-> FALSE, is_empty |-> TRUE,
     bounds |-> <<0, 0, 0, 0>>, length |-> 0, explain |-> ""]

\* bool(poly): None is falsy, a shapely geometry is truthy unless empty
Truthy(poly) == poly # NonePoly /\ ~poly.is_empty

\* what coordinates_of_segment and Polygon(...) give for a node:
\* raises = "" (a polygon is built), "ValueError" (Polygon raises it) or
\* "coordinates" (coordinates_of_segment raises, or Polygon raises another
\* exception type)
Built(poly) == [raises |-> "", err |-> "", poly |-> poly]

\* the well-formed coordinates of the sample page
GoodCoords ==
    [bd |-> Built(Rect("bd", 0, 0, 100, 100)),
     ps |-> Built(Rect("ps", 5, 5, 95, 95)),
     r1 |-> Built(Rect("r1", 10, 10, 50, 50)),
     l1 |-> Built(Rect("l1", 12, 12, 48, 20)),
     w1 |-> Built(Rect("w1", 12, 12, 30, 20)),
     g1 |-> Built(Rect("g1", 13, 14, 14, 15)),
     r2 |-> Built(Rect("r2", 40, 10, 90, 50))]

\* image points probed by find_region: inside the word (and line, region,
\* print-space, border), and inside both regions where they overlap
Points == {<<20, 15>>, <<45, 30>>}

\* one damaged variant per node, covering every rejection of segment_poly
DamagedCoords ==
    [ps |-> Built(Rect("ps", 0 - 5, 5, 95, 95)),
     bd |-> Built([Rect("bd", 0, 0, 0, 0) EXCEPT !.is_empty = TRUE]),
     r1 |-> Built([Rect("r1", 10, 10, 50, 50) EXCEPT
                      !.is_valid = FALSE,
                      !.explain = "Self-intersection[30 30]"]),
     l1 |-> Built([Rect("l1", 12, 12, 13, 13) EXCEPT !.length = 3]),
     w1 |-> [raises |-> "ValueError",
             err |-> "A LinearRing must have at least 3 coordinate tuples",
             poly |-> NonePoly],
     g1 |-> Built(Rect("g1", 13, 0 - 1, 14, 15)),
     r2 |-> Built([Rect("r2", 40, 10, 41, 10) EXCEPT !.length = 2])]

\* coordinates that cannot be obtained at all (malformed points attribute)
Unobtainable == [raises |-> "coordinates", err |-> "", poly |-> NonePoly]

\* shapely's poly.contains(Point(x, y)): the interior, boundary excluded
contains(poly, p) ==
    /\ ~poly.is_empty
    /\ poly.bounds[1] < p[1] /\ p[1] < poly.bounds[3]
    /\ poly.bounds[2] < p[2] /\ p[2] < poly.bounds[4]

(***************************************************************************)
(* get_breadcrumbs and Operation.depth                                     *)
(***************************************************************************)
RECURSIVE Reverse(_)
Reverse(s) == IF s = <<>> THEN <<>> ELSE Append(Reverse(Tail(s)), Head(s))

RECURSIVE breadcrumbs_up(_)
breadcrumbs_up(region) ==
    IF region \in DOMAIN parent_object_
    THEN <<region>> \o breadcrumbs_up(parent_object_[region])
    ELSE <<region>>

get_breadcrumbs(region) == Reverse(breadcrumbs_up(region))

\* a depth that counts the Border as an ancestor of everything but the
\* Border and the PrintSpace
depth_below_border(op) ==
    Len(get_breadcrumbs(op.region))
        + (IF ClassName[op.region] \in {"BorderType", "PrintSpaceType"} THEN 0 ELSE 1)

\* Operation.depth
depth(op) == Len(get_breadcrumbs(op.region))

(***************************************************************************)
(* The colour table.  A colour 'RRGGBBAA' is kept as its first six digits  *)
(* and its last two.                                                       *)
(***************************************************************************)
Color(rgb, a) == [rgb |-> rgb, a |-> a]

\* the entries of CLASSES the sample page can touch
CLASSES ==
    ("" :> Color("FFFFFF", "00")) @@
    ("Glyph" :> Color("2E8B08", "FF")) @@
    ("Word" :> Color("B22222", "FF")) @@
    ("TextLine" :> Color("32CD32", "FF")) @@
    ("Border" :> Color("FFFFFF", "FF")) @@
    ("PrintSpace" :> Color("CCCCCC", "FF")) @@
    ("TextRegion" :> Color("0000FF", "FF")) @@
    ("TextRegion:heading" :> Color("0000FF", "F5")) @@
    ("ImageRegion" :> Color("00CED1", "FF")) @@
    ("NoiseRegion" :> Color("FF0000", "FF"))

\* a default factory giving the colour of the '' entry, FFFFFF00
DefaultColor_transparent == Color("FFFFFF", "00")

\* defaultdict(lambda: 'FF0000FF')
DefaultColor == Color("FF0000", "FF")

\* self.colors[key] on the defaultdict: a missing key is inserted
colors_getitem(colors, key) ==
    IF key \in DOMAIN colors
    THEN [colors |-> colors, value |-> colors[key]]
    ELSE [colors |-> colors @@ (key :> DefaultColor), value |-> DefaultColor]

\* the constructor argument colors: Optional[Dict[str, str]]
NoColors == [given |-> FALSE, table |-> <<>>]
Colors(table) == [given |-> TRUE, table |-> table]

\* a table a caller substitutes: it registers a text region, its heading
\* subtype under another colour, and words; every other type is unmapped
CustomColors ==
    ("TextRegion" :> Color("0000FF", "FF")) @@
    ("TextRegion:heading" :> Color("FFD700", "FF")) @@
    ("Word" :> Color("B22222", "FF"))

\* self.colors.update(colors or CLASSES) on the empty defaultdict: None and
\* the empty dictionary are both falsy
PageXmlRenderer_colors(colors) ==
    IF ~colors.given \/ DOMAIN colors.table = {} THEN CLASSES ELSE colors.table

(***************************************************************************)
(* Operations: the depth-keyed batch (a defaultdict(list))                 *)
(***************************************************************************)
NoOperations == <<>>

\* Operations.append
Operations_append(operations, op) ==
    LET d == depth(op) IN
    IF d \in DOMAIN operations
    THEN [operations EXCEPT ![d] = Append(@, op)]
    ELSE operations @@ (d :> <<op>>)

RECURSIVE sorted_reverse(_)
sorted_reverse(keys) ==
    IF keys = {} THEN <<>>
    ELSE LET m == CHOOSE k \in keys : \A j \in keys : j <= k
         IN <<m>> \o sorted_reverse(keys \ {m})

\* layers with sorted(self.operations) not reversed: shallowest first
layers_shallow_first(operations) ==
    LET keys == Reverse(sorted_reverse(DOMAIN operations))
    IN [i \in 1..Len(keys) |-> <<keys[i], operations[keys[i]]>>]

\* Operations.layers: (depth, operations) pairs, deepest first
layers(operations) ==
    LET keys == sorted_reverse(DOMAIN operations)
    IN [i \in 1..Len(keys) |-> <<keys[i], operations[keys[i]]>>]

\* paint_layer where the region is recorded by Operation.paint and again by
\* PolygonOperation.paint
RECURSIVE paint_layer_twice(_, _, _)
paint_layer_twice(ops, draw, regions) ==
    IF ops = <<>> THEN [layer |-> draw, regions |-> regions]
    ELSE LET op == Head(ops)
             e == [poly |-> op.poly, region |-> op.region]
         IN paint_layer_twice(Tail(ops),
                     Append(draw, [xy |-> op.poly.ring, fill |-> op.fill,
                                   outline |-> op.outline]),
                     Append(Append(regions, e), e))

\* PolygonOperation.paint on one layer: draw.polygon and regions.append
RECURSIVE paint_layer(_, _, _)
paint_layer(ops, draw, regions) ==
    IF ops = <<>> THEN [layer |-> draw, regions |-> regions]
    ELSE LET op == Head(ops) IN
         paint_layer(Tail(ops),
                     Append(draw, [xy |-> op.poly.ring, fill |-> op.fill,
                                   outline |-> op.outline]),
                     Append(regions, [poly |-> op.poly, region |-> op.region]))

\* the loop of Operations.paint compositing a layer after every operation
RECURSIVE paint_layers_per_operation(_, _, _)
paint_layers_per_operation(ls, canvas, regions) ==
    IF ls = <<>> THEN [canvas |-> canvas, regions |-> regions]
    ELSE LET ops == Head(ls)[2]
             r == paint_layer(<<Head(ops)>>, <<>>, regions)
             rest == IF Len(ops) > 1
                     THEN <<<<Head(ls)[1], Tail(ops)>>>> \o Tail(ls)
                     ELSE Tail(ls)
         IN paint_layers_per_operation(rest, Append(canvas, r.layer), r.regions)

\* the loop of Operations.paint over the layers
RECURSIVE paint_layers(_, _, _)
paint_layers(ls, canvas, regions) ==
    IF ls = <<>> THEN [canvas |-> canvas, regions |-> regions]
    ELSE LET r == paint_layer(Head(ls)[2], <<>>, regions) IN
         paint_layers(Tail(ls), Append(canvas, r.layer), r.regions)

\* Operations.paint without self.operations.clear()
Operations_paint_keep(operations, canvas) ==
    LET r == paint_layers(layers(operations), canvas, <<>>) IN
    [canvas |-> r.canvas, regions |-> r.regions, operations |-> operations]

\* Operations.paint: the image is the sequence of layers composited onto
\* the canvas it was given; the batch is cleared
Operations_paint(operations, canvas) ==
    LET r == paint_layers(layers(operations), canvas, <<>>) IN
    [canvas |-> r.canvas, regions |-> r.regions, operations |-> NoOperations]

(***************************************************************************)
(* RegionMap.find_region                                                   *)
(***************************************************************************)
DefaultIgnore == <<"BorderType", "PrintSpaceType">>

InList(x, list) == \E i \in 1..Len(list) : list[i] = x

\* the scan returning the last matching entry
find_last(region_nodes, p, ignore_regions) ==
    LET hits == {i \in 1..Len(region_nodes) :
                    /\ contains(region_nodes[i].poly, p)
                    /\ ~InList(ClassName[region_nodes[i].region], ignore_regions)}
    IN IF hits = {} THEN None
       ELSE region_nodes[CHOOSE i \in hits : \A j \in hits : j <= i].region

\* the scan without the type test
find_first_of_any_type(region_nodes, p, ignore_regions) ==
    LET hits == {i \in 1..Len(region_nodes) : contains(region_nodes[i].poly, p)}
    IN IF hits = {} THEN None
       ELSE region_nodes[CHOOSE i \in hits : \A j \in hits : i <= j].region

\* the loop of find_region: the first entry that contains the point and
\* whose type is not ignored
RECURSIVE find_first(_, _, _)
find_first(region_nodes, p, ignore_regions) ==
    IF region_nodes = <<>> THEN None
    ELSE LET e == Head(region_nodes) IN
         IF contains(e.poly, p) /\ ~InList(ClassName[e.region], ignore_regions)
         THEN e.region
         ELSE find_first(Tail(region_nodes), p, ignore_regions)

\* the argument ignore_regions: Optional[List[Type]]
NoIgnore == [given |-> FALSE, types |-> <<>>]
Ignore(types) == [given |-> TRUE, types |-> types]

\* ignore_regions = ignore_regions or [BorderType, PrintSpaceType]:
\* None and the empty list are both falsy
find_region(region_nodes, p, ignore_regions) ==
    LET ignore == IF ~ignore_regions.given \/ ignore_regions.types = <<>>
                  THEN DefaultIgnore ELSE ignore_regions.types
    IN find_first(region_nodes, p, ignore)

(***************************************************************************)
(* PageXmlRenderer.  self is [operations, colors, log, exc, visits]: the   *)
(* batch, the colour table, the messages logged, whether an exception is   *)
(* propagating out of the current call, and the regions render_type went   *)
(* on to validate, in call order.                                          *)
(***************************************************************************)
PageId == "PHYS_0001"

get_PrintSpace(doc) == IF "ps" \in doc.nodes THEN "ps" ELSE None
get_Border(doc) == IF "bd" \in doc.nodes THEN "bd" ELSE None
get_AllRegions(doc) == doc.reading_order
get_children(doc, node) == SelectSeq(ChildrenOf[node], LAMBDA c : c \in doc.nodes)

\* segment_poly testing only bounds[0] for a negative coordinate
segment_poly_x_only(doc, segment) ==
    LET src == doc.coords[segment]
        tag == [type |-> StripType[ClassName[segment]],
                id |-> IF segment \in HasId THEN segment ELSE None]
        reason ==
            IF src.raises = "ValueError" THEN src.err
            ELSE IF ~src.poly.is_valid THEN src.poly.explain
            ELSE IF src.poly.is_empty THEN "is empty"
            ELSE IF src.poly.bounds[1] < 0 THEN "is negative"
            ELSE IF src.poly.length < 4 THEN "has too few points"
            ELSE ""
    IN IF src.raises = "coordinates"
       THEN [poly |-> NonePoly, exc |-> TRUE, log |-> <<>>]
       ELSE IF reason # ""
       THEN [poly |-> NonePoly, exc |-> FALSE,
             log |-> <<[page |-> PageId, tag |-> tag, reason |-> reason]>>]
       ELSE [poly |-> src.poly, exc |-> FALSE, log |-> <<>>]

\* PageXmlRenderer.segment_poly
segment_poly(doc, segment) ==
    LET src == doc.coords[segment]
        tag == [type |-> StripType[ClassName[segment]],
                id |-> IF segment \in HasId THEN segment ELSE None]
        reason ==
            IF src.raises = "ValueError" THEN src.err
            ELSE IF ~src.poly.is_valid THEN src.poly.explain
            ELSE IF src.poly.is_empty THEN "is empty"
            ELSE IF src.poly.bounds[1] < 0 \/ src.poly.bounds[2] < 0
                 THEN "is negative"
            ELSE IF src.poly.length < 4 THEN "has too few points"
            ELSE ""
    IN IF src.raises = "coordinates"
       THEN [poly |-> NonePoly, exc |-> TRUE, log |-> <<>>]
       ELSE IF reason # ""
       THEN [poly |-> NonePoly, exc |-> FALSE,
             log |-> <<[page |-> PageId, tag |-> tag, reason |-> reason]>>]
       ELSE [poly |-> src.poly, exc |-> FALSE, log |-> <<>>]

\* PageXmlRenderer.plot_segment
plot_segment(self, poly, region) ==
    LET region_type == StripType[ClassName[region]]
        got == colors_getitem(self.colors, region_type)
        op == [poly |-> poly, region |-> region,
               fill |-> Color(got.value.rgb, "1E"),
               outline |-> Color(got.value.rgb, "96")]
    IN [self EXCEPT !.colors = got.colors,
                    !.operations = Operations_append(self.operations, op)]

RECURSIVE render_type(_, _, _)
RECURSIVE render_text_region(_, _, _)
RECURSIVE render_lines(_, _, _)
RECURSIVE render_words(_, _, _)
RECURSIVE render_glyphs(_, _, _)

\* PageXmlRenderer.render_type
render_type(doc, self, region) ==
    IF region = None THEN self
    ELSE LET r == segment_poly(doc, region)
             logged == [self EXCEPT !.log = self.log \o r.log, !.exc = r.exc,
                                    !.visits = Append(self.visits, region)]
         IN IF r.exc THEN logged
            ELSE IF Truthy(r.poly)
            THEN LET plotted == plot_segment(logged, r.poly, region) IN
                 IF ClassName[region] = "TextRegionType"
                 THEN render_text_region(doc, plotted, region)
                 ELSE plotted
            ELSE logged

\* the innermost loop of render_text_region: for glyph in word.get_Glyph()
render_glyphs(doc, self, glyphs) ==
    IF glyphs = <<>> \/ self.exc THEN self
    ELSE render_glyphs(doc, render_type(doc, self, Head(glyphs)), Tail(glyphs))

\* for word in line.get_Word()
render_words(doc, self, words) ==
    IF words = <<>> \/ self.exc THEN self
    ELSE LET s1 == render_type(doc, self, Head(words))
             s2 == IF s1.exc THEN s1
                   ELSE render_glyphs(doc, s1, get_children(doc, Head(words)))
         IN render_words(doc, s2, Tail(words))

\* for line in text_region.get_TextLine()
render_lines(doc, self, lines) ==
    IF lines = <<>> \/ self.exc THEN self
    ELSE LET s1 == render_type(doc, self, Head(lines))
             s2 == IF s1.exc THEN s1
                   ELSE render_words(doc, s1, get_children(doc, Head(lines)))
         IN render_lines(doc, s2, Tail(lines))

\* PageXmlRenderer.render_text_region
render_text_region(doc, self, text_region) ==
    render_lines(doc, self, get_children(doc, text_region))

\* for region in page.get_AllRegions(order='reading-order')
RECURSIVE render_regions(_, _, _)
render_regions(doc, self, regions) ==
    IF regions = <<>> \/ self.exc THEN self
    ELSE render_regions(doc, render_type(doc, self, Head(regions)), Tail(regions))

\* PageXmlRenderer.render_all
render_all(doc, self) ==
    LET s1 == render_type(doc, self, get_PrintSpace(doc))
        s2 == IF s1.exc THEN s1 ELSE render_type(doc, s1, get_Border(doc))
    IN IF s2.exc THEN s2 ELSE render_regions(doc, s2, get_AllRegions(doc))

\* An image object is [object, px]: which object it is and what it shows.
\* The objects are the image given to the constructor, the renderer's
\* stored canvas, and the copy a get_canvas call makes.
Image(object, px) == [object |-> object, px |-> px]

\* Image.convert('RGBA') in the constructor: a new image object
Image_convert(image) == Image("self.canvas", image.px)

\* Image.copy returning the image itself
Image_copy_same(image) == image

\* Image.copy: a new image object showing the same pixels
Image_copy(image) == Image("copy", image.px)

\* get_canvas painting onto self.canvas itself
get_canvas_in_place(canvas, operations) ==
    LET r == Operations_paint(operations, canvas) IN
    [image |-> r.canvas, regions |-> r.regions, operations |-> r.operations,
     canvas |-> r.canvas, object |-> "self.canvas"]

\* PageXmlRenderer.get_canvas: paints onto a copy of the stored canvas.
\* paint composites onto the object it is handed and returns that object,
\* so the stored canvas changes exactly when it is that object.
get_canvas(canvas, operations) ==
    LET target == Image_copy(Image("self.canvas", canvas))
        r == Operations_paint(operations, target.px)
    IN [image |-> r.canvas, regions |-> r.regions, operations |-> r.operations,
        canvas |-> IF target.object = "self.canvas" THEN r.canvas ELSE canvas,
        object |-> target.object]

(***************************************************************************)
(* The documents a renderer is given                                       *)
(***************************************************************************)
ParentClosed(nodes) ==
    \A n \in nodes : parent_object_[n] \in Regions => parent_object_[n] \in nodes

ReadingOrders(nodes) ==
    IF {"r1", "r2"} \subseteq nodes THEN {<<"r1", "r2">>, <<"r2", "r1">>}
    ELSE IF "r1" \in nodes THEN {<<"r1">>}
    ELSE IF "r2" \in nodes THEN {<<"r2">>}
    ELSE {<<>>}

CoordsOf(n) == {GoodCoords[n], DamagedCoords[n], Unobtainable}

Documents ==
    UNION {
        UNION {
            { [nodes |-> nodes, coords |-> coords, reading_order |-> order] :
                coords \in { f \in [nodes -> UNION {CoordsOf(n) : n \in nodes}] :
                               \A n \in nodes : f[n] \in CoordsOf(n) } }
            : order \in ReadingOrders(nodes) }
        : nodes \in { ns \in SUBSET Regions :
                        Cardinality(ns) <= MaxNodes /\ ParentClosed(ns) } }

(***************************************************************************)
(* ViewPage (ocrd_browser/view/page.py): the widget geometry               *)
(***************************************************************************)
\* width and height of the page image the renderer is given and returns
PageSize == [width |-> 100, height |-> 100]

\* scale_config.get_exp() as a fraction: the zoom the view is left at
Zoom == [num |-> 1, den |-> 2]

\* self.image.get_allocated_width() and get_allocated_height()
Allocated == [width |-> 60, height |-> 60]

\* self.image.get_pixbuf() is None: an icon or nothing is displayed
NoPixbuf == [shown |-> FALSE, width |-> 0, height |-> 0]

\* pil_scale(page_image, None, int(exp * height)) and pil_to_pixbuf: the
\* thumbnail has the height asked for and keeps the aspect ratio
thumbnail(size) ==
    LET height == (Zoom.num * size.height) \div Zoom.den
    IN [shown |-> TRUE, width |-> (size.width * height) \div size.height,
        height |-> height]

\* the pointer positions a tooltip is queried at
ScreenPoints == {<<2, 2>>, <<15, 12>>, <<27, 20>>}

\* what a _query_tooltip call did: its return value, the text it set (tx,
\* ty, type name, id) and the exception it raised
NoTooltip == [called |-> FALSE, returned |-> FALSE, text |-> <<>>, raises |-> ""]

\* ViewPage.screen_to_image.  rel_x = (x - (ww - iw) / 2) / iw is kept as the
\* fraction nx / (2 * iw).  page_image is self.page_image (NoResult for
\* None): self.page_image.width on None raises AttributeError.
screen_to_image(pb, page_image, x, y) ==
    LET ww == Allocated.width
        wh == Allocated.height
        nx == 2 * x - (ww - pb.width)
        ny == 2 * y - (wh - pb.height)
    IN IF ~pb.shown
       THEN [none |-> TRUE, raises |-> "", tx |-> 0, ty |-> 0]
       ELSE IF nx < 0 \/ nx > 2 * pb.width \/ ny < 0 \/ ny > 2 * pb.height
       THEN [none |-> TRUE, raises |-> "", tx |-> 0, ty |-> 0]
       ELSE IF page_image.object = None
       THEN [none |-> FALSE, raises |-> "AttributeError", tx |-> 0, ty |-> 0]
       ELSE [none |-> FALSE, raises |-> "",
             tx |-> (nx * PageSize.width) \div (2 * pb.width),
             ty |-> (ny * PageSize.height) \div (2 * pb.height)]

(***************************************************************************)
(* PageListStore (ocrd_browser/ui/page_store.py).  A page id PHYS_000n is  *)
(* kept as the number n.  The store is [rows, page_ids, event, positions,  *)
(* raises, reordered]: the rows (page id and COLUMN_ORDER), the page ids   *)
(* of the document in document order, the event handled last, the list it  *)
(* handed to Gtk.ListStore.reorder, the exception it raised, and whether a *)
(* 'reordered' event was handled so far.                                   *)
(***************************************************************************)
PageIds == 1..MaxPages

\* the sequences over a set of page ids that list each id once
Orderings(ids) ==
    {order \in [1..Cardinality(ids) -> ids] :
        \A i, j \in 1..Cardinality(ids) : i # j => order[i] # order[j]}

\* no event handled yet, nothing handed to reorder
NoEvent == [subtype |-> "", changes |-> <<>>, before |-> <<>>]
NoPositions == [handed |-> FALSE, list |-> <<>>]

\* PageListStore.__init__: a row per page of the document, order from
\* count(start=1)
PageListStore(page_ids) ==
    [rows |-> [i \in 1..Len(page_ids) |-> [page_id |-> page_ids[i], order |-> i]],
     page_ids |-> page_ids, event |-> NoEvent, positions |-> NoPositions,
     raises |-> "", reordered |-> FALSE]

\* get_row_by_page_id: the 0-based index n of the first row with the id,
\* and -1 for the result (None, None)
get_row_by_page_id(rows, page_id) ==
    LET hits == {i \in 1..Len(rows) : rows[i].page_id = page_id}
    IN IF hits = {} THEN 0 - 1
       ELSE (CHOOSE i \in hits : \A j \in hits : i <= j) - 1

\* the loop of _page_added; fail_at is the index of the first page id for
\* which find_files(...) is empty, so that [0] raises IndexError (0: none)
RECURSIVE page_added_loop(_, _, _, _)
page_added_loop(rows, page_ids, k, fail_at) ==
    IF k > Len(page_ids) THEN [rows |-> rows, raises |-> ""]
    ELSE IF k = fail_at THEN [rows |-> rows, raises |-> "IndexError"]
    ELSE page_added_loop(
            Append(rows, [page_id |-> page_ids[k], order |-> Len(rows)]),
            page_ids, k + 1, fail_at)

\* document_changed('page_added', page_ids)
page_added(store, page_ids, fail_at) ==
    LET r == page_added_loop(store.rows, page_ids, 1, fail_at)
    IN [store EXCEPT !.rows = r.rows, !.raises = r.raises,
                     !.event = [subtype |-> "page_added", changes |-> page_ids,
                                before |-> store.rows],
                     !.positions = NoPositions]

\* positions[id_to_position[old]] = id_to_position[new] for every item,
\* on positions = list(range(0, len(old_to_new_ids))); positions is kept
\* 1-based here, its values are the 0-based row indices.  An index past
\* the end of the list raises IndexError.
reordered_positions(rows, old_to_new_ids) ==
    LET size == Cardinality(DOMAIN old_to_new_ids)
        at(i) == {old \in DOMAIN old_to_new_ids : get_row_by_page_id(rows, old) = i}
    IN IF \E old \in DOMAIN old_to_new_ids : get_row_by_page_id(rows, old) >= size
       THEN [raises |-> "IndexError", list |-> <<>>]
       ELSE [raises |-> "",
             list |-> [i \in 1..size |->
                         IF at(i - 1) # {}
                         THEN get_row_by_page_id(rows,
                                 old_to_new_ids[CHOOSE old \in at(i - 1) : TRUE])
                         ELSE i - 1]]

\* Gtk.ListStore.reorder(new_order): new_order[newpos] = oldpos.  GTK reads
\* one entry per row; a list of another length, or one that is no
\* permutation of the row indices, leaves the outcome undefined: any order
\* of the rows.
reorder(rows, new_order) ==
    IF /\ Len(new_order) = Len(rows)
       /\ {new_order[i] : i \in 1..Len(new_order)} = 0..(Len(rows) - 1)
    THEN {[i \in 1..Len(rows) |-> rows[new_order[i] + 1]]}
    ELSE {[i \in 1..Len(rows) |-> rows[order[i]]] : order \in Orderings(1..Len(rows))}

\* the loop that rewrites COLUMN_ORDER from count(start=1) in the order of
\* document.page_ids; a page id without a row makes row None, and the
\* assignment to it raises TypeError
RECURSIVE update_order(_, _, _)
update_order(rows, page_ids, k) ==
    IF k > Len(page_ids) THEN [rows |-> rows, raises |-> ""]
    ELSE LET n == get_row_by_page_id(rows, page_ids[k]) IN
         IF n < 0 THEN [rows |-> rows, raises |-> "TypeError"]
         ELSE update_order([rows EXCEPT ![n + 1].order = k], page_ids, k + 1)

\* document.page_ids once the document has applied old_to_new_ids: the
\* page at the place of each old id is the new id
reordered_page_ids(page_ids, old_to_new_ids) ==
    [i \in 1..Len(page_ids) |->
        IF page_ids[i] \in DOMAIN old_to_new_ids
        THEN old_to_new_ids[page_ids[i]] ELSE page_ids[i]]

\* the mappings a 'reordered' event carries: the ids of some rows, each
\* mapped to the id that takes its place
Mappings(ids) ==
    UNION {{f \in [some -> some] : \A a, b \in some : a # b => f[a] # f[b]} :
             some \in (SUBSET ids) \ {{}}}

(***************************************************************************)
(* State                                                                   *)
(***************************************************************************)
VARIABLES
    pc_gts,      \* the document being rendered
    given,       \* the constructor arguments: [canvas, colors]
    canvas,      \* PageXmlRenderer.canvas: the layers composited onto the base
    colors,      \* PageXmlRenderer.colors
    operations,  \* PageXmlRenderer.operations.operations
    exc,         \* the last renderer call ended with an exception
    log,         \* the messages the last renderer call logged
    walked,      \* the regions the last renderer call visited, in order
    pending,     \* render_all calls since the batch was created or painted
    last,        \* what the latest get_canvas returned
    prev,        \* what the get_canvas before it returned
    found,       \* the latest find_region call on last.regions and its result
    view,        \* ViewPage: [current, pixbuf, idle, tooltip]
    store        \* PageListStore

vars == <<pc_gts, given, canvas, colors, operations, exc, log, walked, pending,
          last, prev, found, view, store>>

BaseImage == <<>>

NoResult == [image |-> <<>>, regions |-> <<>>, calls |-> 0 - 1, object |-> None]

NoQuery == [asked |-> FALSE, p |-> <<0, 0>>, ignore_regions |-> NoIgnore,
            region |-> None]

IgnoreArgs == {NoIgnore, Ignore(<<>>), Ignore(<<"TextRegionType">>)}

\* ViewPage.__init__ and build: no current page, an icon displayed, nothing
\* queued
NoView == [current |-> FALSE, pixbuf |-> NoPixbuf, idle |-> 0,
           tooltip |-> NoTooltip]

Init ==
    /\ pc_gts \in Documents
    /\ given = [canvas |-> BaseImage, colors |-> NoColors]
    /\ canvas = BaseImage
    /\ colors = CLASSES
    /\ operations = NoOperations
    /\ exc = FALSE
    /\ log = <<>>
    /\ walked = <<>>
    /\ pending = 0
    /\ last = NoResult
    /\ prev = NoResult
    /\ found = NoQuery
    /\ view = NoView
    /\ store = PageListStore(<<>>)

\* PageXmlRenderer(canvas, coords, page_id, colors): a fresh renderer for
\* the page
NewRenderer ==
    /\ canvas' = Image_convert(Image("canvas", given.canvas)).px
    /\ colors' = PageXmlRenderer_colors(given.colors)
    /\ operations' = NoOperations
    /\ exc' = FALSE
    /\ log' = <<>>
    /\ walked' = <<>>
    /\ pending' = 0
    /\ UNCHANGED <<pc_gts, given, last, prev, found, view, store>>

\* renderer.render_all(pc_gts)
RenderAll ==
    /\ pending < MaxPending
    /\ LET self == render_all(pc_gts, [operations |-> operations, colors |-> colors,
                                       log |-> <<>>, exc |-> FALSE, visits |-> <<>>])
       IN /\ operations' = self.operations
          /\ colors' = self.colors
          /\ log' = self.log
          /\ exc' = self.exc
          /\ walked' = self.visits
    /\ pending' = pending + 1
    /\ UNCHANGED <<pc_gts, given, canvas, last, prev, found, view, store>>

\* renderer.get_canvas()
GetCanvas ==
    /\ LET r == get_canvas(canvas, operations)
       IN /\ last' = [image |-> r.image, regions |-> r.regions, calls |-> pending,
                      object |-> r.object]
          /\ operations' = r.operations
          /\ canvas' = r.canvas
    /\ prev' = last
    /\ pending' = 0
    /\ exc' = FALSE
    /\ log' = <<>>
    /\ walked' = <<>>
    /\ found' = NoQuery
    /\ UNCHANGED <<pc_gts, given, colors, view, store>>

\* region_map.find_region(x, y, ignore_regions) on the map last returned
FindRegion ==
    /\ last # NoResult
    /\ \E p \in Points, ignore_regions \in IgnoreArgs :
         found' = [asked |-> TRUE, p |-> p, ignore_regions |-> ignore_regions,
                   region |-> find_region(last.regions, p, ignore_regions)]
    /\ UNCHANGED <<pc_gts, given, canvas, colors, operations, exc, log, walked,
                   pending, last, prev, view, store>>

\* one render pass as the viewer runs it (ViewPage.redraw with a current
\* page): a fresh renderer, render_all, get_canvas; an exception of
\* render_all propagates and nothing is returned
RenderPass ==
    LET self == render_all(pc_gts, [operations |-> NoOperations, colors |-> CLASSES,
                                    log |-> <<>>, exc |-> FALSE, visits |-> <<>>])
        r == get_canvas(BaseImage, self.operations)
    IN /\ colors' = self.colors
       /\ log' = self.log
       /\ exc' = self.exc
       /\ walked' = self.visits
       /\ pending' = IF self.exc THEN 1 ELSE 0
       /\ operations' = IF self.exc THEN self.operations ELSE r.operations
       /\ canvas' = IF self.exc THEN BaseImage ELSE r.canvas
       /\ last' = IF self.exc THEN last
                  ELSE [image |-> r.image, regions |-> r.regions, calls |-> 1,
                        object |-> r.object]
       /\ prev' = IF self.exc THEN prev ELSE last
       /\ found' = IF self.exc THEN found ELSE NoQuery
       /\ UNCHANGED <<pc_gts, given>>

\* a render pass on its own, the view left aside
Render == RenderPass /\ UNCHANGED <<view, store>>

\* the renderer driven call by call
Next == NewRenderer \/ RenderAll \/ GetCanvas

Spec == Init /\ [][Next]_vars

\* whole render passes and hit tests on the map they return
NextHitTest == Render \/ FindRegion

SpecHitTest == Init /\ [][NextHitTest]_vars

(***************************************************************************)
(* The renderer with the colour table a caller gives it                    *)
(***************************************************************************)
ColorTables == {NoColors, Colors(<<>>), Colors(CustomColors)}

\* the state after PageXmlRenderer(canvas, coords, page_id, colors) for each
\* table, on the pages whose coordinates can all be obtained
InitColors ==
    /\ pc_gts \in {doc \in Documents :
                    \A n \in doc.nodes : doc.coords[n] # Unobtainable}
    /\ \E table \in ColorTables :
         /\ given = [canvas |-> BaseImage, colors |-> table]
         /\ colors = PageXmlRenderer_colors(table)
    /\ canvas = BaseImage
    /\ operations = NoOperations
    /\ exc = FALSE
    /\ log = <<>>
    /\ walked = <<>>
    /\ pending = 0
    /\ last = NoResult
    /\ prev = NoResult
    /\ found = NoQuery
    /\ view = NoView
    /\ store = PageListStore(<<>>)

SpecColors == InitColors /\ [][Next]_vars

(***************************************************************************)
(* ViewPage: redraw, the rescale it queues and the tooltip callback, run   *)
(* one at a time by the GLib main loop in any order                        *)
(***************************************************************************)
\* View.reload: self.current becomes the page looked up for the file group,
\* or None, and redraw runs.  With a page, an exception of the render pass
\* leaves redraw before anything is assigned or queued.
Redraw ==
    /\ view.idle < MaxIdle
    /\ UNCHANGED store
    /\ \E current \in BOOLEAN :
         IF current
         THEN /\ RenderPass
              /\ view' = [view EXCEPT !.current = TRUE,
                                      !.idle = IF exc' THEN @ ELSE @ + 1]
         ELSE /\ last' = NoResult
              /\ view' = [view EXCEPT !.current = FALSE, !.idle = @ + 1]
              /\ UNCHANGED <<pc_gts, given, canvas, colors, operations, exc, log,
                             walked, pending, prev, found>>

\* ViewPage.rescale(True) run from the idle queue
Rescale ==
    /\ view.idle > 0
    /\ view' = [view EXCEPT
                  !.idle = @ - 1,
                  !.pixbuf = IF last # NoResult THEN thumbnail(PageSize)
                             ELSE NoPixbuf]
    /\ UNCHANGED <<pc_gts, given, canvas, colors, operations, exc, log, walked,
                   pending, last, prev, found, store>>

\* ViewPage._query_tooltip(image, x, y, keyboard_mode, tooltip)
QueryTooltip ==
    /\ \E p \in ScreenPoints :
         LET t == screen_to_image(view.pixbuf, last, p[1], p[2])
             region == find_region(last.regions, <<t.tx, t.ty>>, NoIgnore)
         IN view' = [view EXCEPT !.tooltip =
                IF t.raises # ""
                THEN [called |-> TRUE, returned |-> FALSE, text |-> <<>>,
                      raises |-> t.raises]
                ELSE IF t.none
                THEN [called |-> TRUE, returned |-> FALSE, text |-> <<>>,
                      raises |-> ""]
                ELSE [called |-> TRUE, returned |-> TRUE,
                      text |-> <<t.tx, t.ty,
                                 IF region # None THEN ClassName[region] ELSE "",
                                 IF region # None /\ region \in HasId
                                 THEN region ELSE "">>,
                      raises |-> ""]]
    /\ UNCHANGED <<pc_gts, given, canvas, colors, operations, exc, log, walked,
                   pending, last, prev, found, store>>

\* the pages whose coordinates are well-formed or cannot be obtained: a
\* rejected polygon only leaves a region out of the map
InitView ==
    /\ Init
    /\ \A n \in pc_gts.nodes : pc_gts.coords[n] # DamagedCoords[n]

NextView == Redraw \/ Rescale \/ QueryTooltip

SpecView == InitView /\ [][NextView]_vars

(***************************************************************************)
(* PageListStore: the document events 'page_added' and 'reordered'         *)
(***************************************************************************)
\* the renderer and the view left as constructed
Others == <<pc_gts, given, canvas, colors, operations, exc, log, walked, pending,
            last, prev, found, view>>

\* Document adds pages and emits 'page_added' with their ids
PageAdded ==
    /\ \E added \in (SUBSET PageIds) \ {{}} :
         /\ added \cap {store.page_ids[i] : i \in 1..Len(store.page_ids)} = {}
         /\ Len(store.page_ids) + Cardinality(added) <= MaxPages
         /\ \E page_ids \in Orderings(added), fail_at \in 0..Cardinality(added) :
              store' = [page_added(store, page_ids, fail_at)
                          EXCEPT !.page_ids = store.page_ids \o page_ids]
    /\ UNCHANGED Others

\* Document reorders its pages and emits 'reordered' with old_to_new_ids.
\* An IndexError leaves the handler before reorder; otherwise the rows are
\* reordered and COLUMN_ORDER is rewritten.
Reordered ==
    /\ store.rows # <<>>
    /\ \E old_to_new_ids \in Mappings({store.rows[i].page_id : i \in 1..Len(store.rows)}) :
         LET positions == reordered_positions(store.rows, old_to_new_ids)
             page_ids == reordered_page_ids(store.page_ids, old_to_new_ids)
             event == [subtype |-> "reordered", changes |-> old_to_new_ids,
                       before |-> store.rows]
         IN IF positions.raises # ""
            THEN store' = [store EXCEPT !.page_ids = page_ids, !.event = event,
                                        !.positions = NoPositions,
                                        !.raises = positions.raises,
                                        !.reordered = TRUE]
            ELSE \E rows \in reorder(store.rows, positions.list) :
                    LET updated == update_order(rows, page_ids, 1) IN
                    store' = [store EXCEPT
                                !.rows = updated.rows,
                                !.page_ids = page_ids, !.event = event,
                                !.positions = [handed |-> TRUE, list |-> positions.list],
                                !.raises = updated.raises, !.reordered = TRUE]
    /\ UNCHANGED Others

\* the store as constructed for a document of up to MaxPages pages
InitStore ==
    /\ \E ids \in SUBSET PageIds : \E page_ids \in Orderings(ids) :
         store = PageListStore(page_ids)
    /\ pc_gts = [nodes |-> {}, coords |-> <<>>, reading_order |-> <<>>]
    /\ given = [canvas |-> BaseImage, colors |-> NoColors]
    /\ canvas = BaseImage
    /\ colors = CLASSES
    /\ operations = NoOperations
    /\ exc = FALSE
    /\ log = <<>>
    /\ walked = <<>>
    /\ pending = 0
    /\ last = NoResult
    /\ prev = NoResult
    /\ found = NoQuery
    /\ view = NoView

NextStore == PageAdded \/ Reordered

SpecStore == InitStore /\ [][NextStore]_vars

(***************************************************************************)
(* Vocabulary of the properties, stated on the document alone              *)
(***************************************************************************)
\* the polygon of node n passes every validity predicate
Valid(doc, n) ==
    LET src == doc.coords[n] IN
    /\ src.raises = ""
    /\ src.poly.is_valid
    /\ ~src.poly.is_empty
    /\ src.poly.bounds[1] >= 0 /\ src.poly.bounds[2] >= 0
    /\ src.poly.length >= 4

\* the polygon of node n cannot even be obtained
Unparseable(doc, n) == doc.coords[n].raises = "coordinates"

\* print-space, border, then each region in reading order followed by its
\* lines, words and glyphs
RECURSIVE Flatten(_)
Flatten(order) ==
    IF order = <<>> THEN <<>>
    ELSE (IF Head(order) = "r1" THEN <<"r1", "l1", "w1", "g1">> ELSE <<Head(order)>>)
         \o Flatten(Tail(order))

WalkOrder(doc) ==
    SelectSeq(<<"ps", "bd">> \o Flatten(doc.reading_order), LAMBDA n : n \in doc.nodes)

\* the position of node n in a walk order
Pos(walk, n) == CHOOSE i \in 1..Len(walk) : walk[i] = n

Ancestors(n) == {a \in Regions : a # n /\ InList(a, get_breadcrumbs(n))}

NodeDepth(n) == Len(get_breadcrumbs(n))

\* the number of entries of a region map that belong to node n
Count(regions, n) == Cardinality({i \in 1..Len(regions) : regions[i].region = n})

InMap(regions, n) == Count(regions, n) > 0

\* the nodes one walk reaches: lines, words and glyphs only below a text
\* region that was plotted, and nothing after a node whose coordinates
\* cannot be obtained
Eligible(doc) == {n \in doc.nodes : "r1" \in Ancestors(n) => Valid(doc, "r1")}

Visited(doc) ==
    LET eligible == Eligible(doc)
        walk == SelectSeq(WalkOrder(doc), LAMBDA n : n \in eligible)
        stops == {i \in 1..Len(walk) : Unparseable(doc, walk[i])}
    IN {walk[i] : i \in {k \in 1..Len(walk) : \A j \in stops : k <= j}}

Painted(doc) == {n \in Visited(doc) : Valid(doc, n)}

\* the ignore set a caller asked for
Supplied(ignore_regions) ==
    IF ignore_regions.given THEN ignore_regions.types ELSE DefaultIgnore

Hits(regions, p, types) ==
    {i \in 1..Len(regions) :
        contains(regions[i].poly, p) /\ ~InList(ClassName[regions[i].region], types)}

(***************************************************************************)
(* C1: in the region map a render pass returns, entries are ordered by     *)
(* non-increasing depth, and entries of equal depth are in the order the   *)
(* tree walk visited their regions, whichever nodes failed validation.     *)
(***************************************************************************)
C1_DepthThenWalkOrder ==
    LET walk == WalkOrder(pc_gts)
        regions == last.regions
    IN \A i, j \in 1..Len(regions) :
        i < j =>
            /\ NodeDepth(regions[i].region) >= NodeDepth(regions[j].region)
            /\ (last.calls = 1 /\ NodeDepth(regions[i].region) = NodeDepth(regions[j].region))
                 => Pos(walk, regions[i].region) < Pos(walk, regions[j].region)

C1_Witness ==
    /\ last.calls = 1
    /\ \E n \in pc_gts.nodes : ~Valid(pc_gts, n)
    /\ \E i, j \in 1..Len(last.regions) :
         i < j /\ NodeDepth(last.regions[i].region) > NodeDepth(last.regions[j].region)
    /\ \E i, j \in 1..Len(last.regions) :
         i < j /\ NodeDepth(last.regions[i].region) = NodeDepth(last.regions[j].region)

C3_FirstMatchForSuppliedSet ==
    found.asked =>
        LET hits == Hits(last.regions, found.p, Supplied(found.ignore_regions)) IN
        IF hits = {} THEN found.region = None
        ELSE found.region =
               last.regions[CHOOSE i \in hits : \A j \in hits : i <= j].region

(***************************************************************************)
(* C4: find_region never returns a region whose type is in the ignore set  *)
(* of the call, and returns None when every entry that contains the point  *)
(* is of an ignored type.                                                  *)
(***************************************************************************)
C4_IgnoredNeverReturned ==
    found.asked =>
        LET types == Supplied(found.ignore_regions) IN
        /\ found.region # None => ~InList(ClassName[found.region], types)
        /\ Hits(last.regions, found.p, types) = {} => found.region = None

C4_Witness ==
    /\ found.asked /\ ~found.ignore_regions.given
    /\ found.region = None
    /\ \E i \in 1..Len(last.regions) :
         /\ last.regions[i].region = "bd"
         /\ contains(last.regions[i].poly, found.p)

(***************************************************************************)
(* C5: a node whose polygon fails a validity predicate is never turned     *)
(* into a paint operation and never enters a region map: every batched     *)
(* operation and every map entry carries the polygon of a node that passed *)
(* validation.                                                             *)
(***************************************************************************)
C5_OnlyValidPolygons ==
    /\ \A d \in DOMAIN operations : \A i \in 1..Len(operations[d]) :
         LET op == operations[d][i] IN
         /\ op.region \in pc_gts.nodes
         /\ Valid(pc_gts, op.region)
         /\ op.poly = pc_gts.coords[op.region].poly
    /\ \A i \in 1..Len(last.regions) :
         LET e == last.regions[i] IN
         /\ e.region \in pc_gts.nodes
         /\ Valid(pc_gts, e.region)
         /\ e.poly = pc_gts.coords[e.region].poly

C5_Witness ==
    /\ \E n \in Visited(pc_gts) : ~Valid(pc_gts, n) /\ ~Unparseable(pc_gts, n)
    /\ Len(last.regions) >= 2
    /\ DOMAIN operations # {}

(***************************************************************************)
(* C6 (as claimed): the descendants of a container whose own polygon is    *)
(* rejected are still visited: after a render pass that ran to its end,    *)
(* every line, word and glyph with a valid polygon is in the region map,   *)
(* whatever the polygons of its ancestors.                                 *)
(***************************************************************************)
C6_ChildrenOfRejectedPainted ==
    (last.calls = 1 /\ ~\E n \in pc_gts.nodes : Unparseable(pc_gts, n)) =>
        \A n \in pc_gts.nodes :
            (Ancestors(n) # {} /\ Valid(pc_gts, n)) => InMap(last.regions, n)

(***************************************************************************)
(* C7 (as claimed): a failing node never aborts the pass nor affects other *)
(* subtrees: render_all completes, and every valid node none of whose      *)
(* ancestors fails is recorded in the region map of the pass.              *)
(***************************************************************************)
C7_FailureNeverAborts ==
    /\ ~exc
    /\ last.calls = 1 =>
         \A n \in pc_gts.nodes :
            (Valid(pc_gts, n) /\ \A a \in Ancestors(n) : Valid(pc_gts, a))
               => Count(last.regions, n) = 1

(***************************************************************************)
(* C8 (as claimed): after any sequence of render_all and get_canvas calls, *)
(* the map a get_canvas returns holds each region visited with a valid     *)
(* polygon exactly once.                                                   *)
(***************************************************************************)
C8_ExactlyOnceAnySequence ==
    LET painted == Painted(pc_gts) IN
    last.calls >= 1 =>
        \A n \in Regions :
            Count(last.regions, n) = IF n \in painted THEN 1 ELSE 0

(***************************************************************************)
(* C8 (amended): the map a get_canvas returns holds one entry per          *)
(* operation emitted since the previous get_canvas, that is, each region   *)
(* visited with a valid polygon once per render_all call made since then   *)
(* (exactly once after a single render_all), and nothing else: no entry of *)
(* an earlier map is carried over.                                         *)
(***************************************************************************)
C8_OncePerWalkSincePaint ==
    LET painted == Painted(pc_gts) IN
    last # NoResult =>
        \A n \in Regions :
            Count(last.regions, n) = IF n \in painted THEN last.calls ELSE 0

C8_Witness ==
    /\ last.calls = 2
    /\ Len(last.regions) >= 4
    /\ prev.calls = 1
    /\ prev.regions # <<>>

(***************************************************************************)
(* C9: two render passes over the same document, on one renderer or on two *)
(* fresh ones, give the same sequence of layers and the same region map.   *)
(***************************************************************************)
C9_Idempotent ==
    (prev.calls = 1 /\ last.calls = 1) =>
        /\ last.image = prev.image
        /\ last.regions = prev.regions

C9_Witness ==
    /\ prev.calls = 1 /\ last.calls = 1
    /\ Len(last.image) >= 2
    /\ Len(last.regions) >= 3

(***************************************************************************)
(* C10: the batch is single-use: when paint has returned it holds no       *)
(* operation at any depth, and a paint that follows with no new append     *)
(* draws no layer and returns an empty region map.                         *)
(***************************************************************************)
C10_BatchSingleUse ==
    /\ pending = 0 => \A d \in DOMAIN operations : operations[d] = <<>>
    /\ last.calls = 0 => (last.image = BaseImage /\ last.regions = <<>>)

C10_Witness ==
    /\ last.calls = 0
    /\ prev.calls >= 1
    /\ prev.regions # <<>>
    /\ pending = 0

(***************************************************************************)
(* C11: the base image is never mutated in place: whatever render_all and  *)
(* get_canvas calls were made, the image given to the constructor and the  *)
(* renderer's stored canvas show what they showed at construction, and the *)
(* image a get_canvas call returns is neither of these two objects.        *)
(***************************************************************************)
C11_BaseImageNeverMutated ==
    /\ given.canvas = BaseImage
    /\ canvas = BaseImage
    /\ last # NoResult => last.object \notin {"canvas", "self.canvas"}

C11_Witness ==
    /\ prev.calls >= 1 /\ Len(prev.image) >= 2
    /\ last.calls >= 1 /\ Len(last.image) >= 2
    /\ pending >= 1

(***************************************************************************)
(* C12: in every get_canvas step, paint composites one layer per distinct  *)
(* depth of the batch, deepest depth first and in strictly descending      *)
(* order, and the k-th layer composited holds exactly the operations of    *)
(* the k-th deepest depth, in batch order: nothing of a shallower depth is *)
(* drawn before a deeper layer is complete and composited.                 *)
(***************************************************************************)
C12_DeepestLayerFirstOnePerDepth ==
    [][ GetCanvas =>
          LET image == last'.image
              depths == {d \in DOMAIN operations : operations[d] # <<>>}
          IN /\ Len(image) = Cardinality(depths)
             /\ \A k \in 1..Len(image) :
                  \E d \in depths :
                     /\ Cardinality({e \in depths : e > d}) = k - 1
                     /\ Len(image[k]) = Len(operations[d])
                     /\ \A i \in 1..Len(image[k]) :
                          /\ image[k][i].xy = operations[d][i].poly.ring
                          /\ image[k][i].fill = operations[d][i].fill
                          /\ image[k][i].outline = operations[d][i].outline
      ]_vars

C12_Witness ==
    /\ last.calls = 1
    /\ Len(last.image) >= 3
    /\ \E k \in 1..Len(last.image) : Len(last.image[k]) >= 2
    /\ \E k \in 1..Len(last.image) : last.image[k][1].xy = "bd"

(***************************************************************************)
(* C15 (as claimed): segment_poly returns the polygon exactly when it was  *)
(* built and is valid, not empty, without negative bound and of boundary   *)
(* length >= 4; for every other region handed to it, it returns no polygon *)
(* and logs exactly one message, which names the page id, the region's     *)
(* type and, when the region has one, its id.                              *)
(***************************************************************************)
C15_PolygonOrOneMessage ==
    \A i \in 1..Len(walked) :
        LET n == walked[i]
            tag == [type |-> StripType[ClassName[n]],
                    id |-> IF n \in HasId THEN n ELSE None]
            messages == {k \in 1..Len(log) : log[k].tag = tag}
            plotted == \E d \in DOMAIN operations : \E j \in 1..Len(operations[d]) :
                          /\ operations[d][j].region = n
                          /\ operations[d][j].poly = pc_gts.coords[n].poly
        IN IF Valid(pc_gts, n)
           THEN plotted /\ messages = {}
           ELSE /\ ~plotted
                /\ Cardinality(messages) = 1
                /\ \A k \in messages : log[k].page = PageId /\ log[k].reason # ""

(***************************************************************************)
(* C16 (as claimed): validation never raises past its boundary: for every  *)
(* region render_type hands to segment_poly, whatever fails while its      *)
(* polygon is obtained or built, the call returns (a polygon or none) and  *)
(* no exception reaches render_type.                                       *)
(***************************************************************************)
C16_ValidationNeverRaises ==
    /\ \A i \in 1..Len(walked) : ~segment_poly(pc_gts, walked[i]).exc
    /\ pending >= 1 => ~exc

\* the page of the scenario: a Border, a TextRegion and a TextLine inside
\* it, all polygons valid
ScenarioPage ==
    /\ pc_gts.nodes = {"bd", "r1", "l1"}
    /\ \A n \in pc_gts.nodes : Valid(pc_gts, n)

\* the regions of a sequence of operations or of drawn polygons
RegionsOf(ops) == [i \in 1..Len(ops) |-> ops[i].region]
DrawnOn(layer) == [i \in 1..Len(layer) |-> layer[i].xy]

(***************************************************************************)
(* C17 (as claimed): rendering the scenario page yields exactly three      *)
(* operations, the Border at depth 1, the TextRegion at depth 2 and the    *)
(* TextLine at depth 3: three depth layers, the Border's composited last.  *)
(***************************************************************************)
C17_ThreeDepthLayers ==
    ScenarioPage =>
        /\ pending = 1 =>
             /\ DOMAIN operations = {1, 2, 3}
             /\ RegionsOf(operations[1]) = <<"bd">>
             /\ RegionsOf(operations[2]) = <<"r1">>
             /\ RegionsOf(operations[3]) = <<"l1">>
        /\ last.calls = 1 =>
             /\ Len(last.image) = 3
             /\ DrawnOn(last.image[3]) = <<"bd">>

(***************************************************************************)
(* C17 (amended): rendering the scenario page yields exactly three         *)
(* operations at two depths: the Border and the TextRegion, both children  *)
(* of the Page, share a depth d and the TextLine has depth d + 1; the      *)
(* TextLine's layer is composited first and the layer that holds the       *)
(* Border together with the TextRegion last.                               *)
(***************************************************************************)
C17_BorderSharesDepthWithRegion ==
    ScenarioPage =>
        /\ pending = 1 =>
             \E d \in DOMAIN operations :
                /\ DOMAIN operations = {d, d + 1}
                /\ RegionsOf(operations[d]) = <<"bd", "r1">>
                /\ RegionsOf(operations[d + 1]) = <<"l1">>
        /\ last.calls = 1 =>
             /\ Len(last.regions) = 3
             /\ Len(last.image) = 2
             /\ DrawnOn(last.image[1]) = <<"l1">>
             /\ DrawnOn(last.image[2]) = <<"bd", "r1">>

C17_Witness ==
    /\ ScenarioPage
    /\ last.calls = 1
    /\ pending = 1
    /\ Len(last.image) = 2

(***************************************************************************)
(* C18 (as claimed): a render_all call visits the print-space, then the    *)
(* border, then the top-level regions in reading order, each text region   *)
(* followed by its lines, each line by its words, each word by its glyphs; *)
(* an absent print-space or border is skipped, and every node is visited   *)
(* once.                                                                   *)
(***************************************************************************)
C18_WalkVisitsAllInOrder ==
    pending >= 1 => walked = WalkOrder(pc_gts)

(***************************************************************************)
(* Vocabulary of the colour properties                                     *)
(***************************************************************************)
\* the table in force: the caller's when one with entries was supplied,
\* else the built-in one
ActiveTable ==
    IF given.colors.given /\ given.colors.table # <<>>
    THEN given.colors.table ELSE CLASSES

\* the type attribute of the sample page's regions, which the renderer
\* never reads: the text region is a heading
SubtypeOf(n) == IF n = "r1" THEN "heading" ELSE None

TypeOf(n) == StripType[ClassName[n]]

\* the batched operations, whatever their depth
Batched == UNION {{operations[d][i] : i \in 1..Len(operations[d])} : d \in DOMAIN operations}

\* the colour the contract's lookup gives for a node: "Type:subtype" when
\* the node has a subtype and that key is registered, else "Type", else
\* the fallback FF0000FF
color_for(table, n) ==
    LET qualified == IF n = "r1" THEN "TextRegion:heading" ELSE TypeOf(n)
    IN IF SubtypeOf(n) # None /\ qualified \in DOMAIN table THEN table[qualified]
       ELSE IF TypeOf(n) \in DOMAIN table THEN table[TypeOf(n)]
       ELSE Color("FF0000", "FF")

(***************************************************************************)
(* C13 (as claimed): the colour of a painted region is looked up under     *)
(* "Type:subtype" first when the region has a subtype, then under "Type",  *)
(* and is the fallback when neither is registered: a heading TextRegion is *)
(* painted in the base colour registered for "TextRegion:heading".         *)
(***************************************************************************)
C13_SubtypeKeyTriedFirst ==
    \A op \in Batched :
        /\ op.fill.rgb = color_for(ActiveTable, op.region).rgb
        /\ op.outline.rgb = color_for(ActiveTable, op.region).rgb

(***************************************************************************)
(* C14: a region type absent from the table in force is painted from the   *)
(* fixed fallback FF0000FF, on its first lookup and on every later one,    *)
(* and the entry the lookups leave is that same colour, with the built-in  *)
(* table and with a table the caller supplied.                             *)
(***************************************************************************)
C14_FixedFallbackColor ==
    /\ \A op \in Batched :
         TypeOf(op.region) \notin DOMAIN ActiveTable =>
            /\ op.fill = Color("FF0000", "1E")
            /\ op.outline = Color("FF0000", "96")
    /\ \A key \in DOMAIN colors \ DOMAIN ActiveTable :
         colors[key] = Color("FF0000", "FF")
    /\ \A d \in DOMAIN operations : \A i, j \in 1..Len(operations[d]) :
         operations[d][i].region = operations[d][j].region =>
            operations[d][i].fill = operations[d][j].fill

C14_Witness ==
    /\ given.colors = Colors(CustomColors)
    /\ pending = 2
    /\ \E d \in DOMAIN operations : \E i, j \in 1..Len(operations[d]) :
         /\ i < j
         /\ operations[d][i].region = "r2" /\ operations[d][j].region = "r2"
    /\ \E op \in Batched : TypeOf(op.region) \in DOMAIN ActiveTable

(***************************************************************************)
(* C19 (as claimed): looking a colour up never changes the renderer's      *)
(* colour table: after any render_all calls its keys and values are those  *)
(* it had at construction, for mapped and unmapped region types alike.     *)
(***************************************************************************)
C19_LookupLeavesTableUnchanged == colors = ActiveTable

(***************************************************************************)
(* C20 (as claimed): in every interleaving of redraw, the rescale it       *)
(* queues and _query_tooltip, a tooltip query that gets past the pixbuf    *)
(* check (a pixbuf is displayed and the pointer is inside it) finds        *)
(* page_image and region_map set: no query reads an attribute of None,     *)
(* not even after a redraw without current page whose rescale is still     *)
(* queued.                                                                 *)
(***************************************************************************)
C20_TooltipNeverReadsNone == view.tooltip.raises = ""

(***************************************************************************)
(* C21 (as claimed): after construction and after any sequence of          *)
(* 'page_added' events, the COLUMN_ORDER values of the rows are pairwise   *)
(* distinct and each row's COLUMN_ORDER is its 1-based position.           *)
(***************************************************************************)
C21_OrderIsPosition ==
    ~store.reordered =>
        /\ \A i \in 1..Len(store.rows) : store.rows[i].order = i
        /\ \A i, j \in 1..Len(store.rows) :
             i # j => store.rows[i].order # store.rows[j].order

(***************************************************************************)
(* C22 (as claimed): a 'reordered' event never loses or duplicates rows:   *)
(* for every mapping over page ids of the store, one that lists only some  *)
(* of the rows included, the list handed to reorder has one entry per row  *)
(* and is a permutation of the row indices 0..n-1, and the row placed at   *)
(* the former position of each old id is the row that held its new id.     *)
(***************************************************************************)
C22_ReorderIsPermutation ==
    store.event.subtype = "reordered" =>
        LET before == store.event.before
            old_to_new_ids == store.event.changes
            n == Len(before)
            list == store.positions.list
        IN /\ store.positions.handed
           /\ Len(list) = n
           /\ {list[i] : i \in 1..Len(list)} = 0..(n - 1)
           /\ Len(store.rows) = n
           /\ \A id \in {before[i].page_id : i \in 1..n} :
                Cardinality({i \in 1..Len(store.rows) : store.rows[i].page_id = id}) = 1
           /\ \A old \in DOMAIN old_to_new_ids :
                store.rows[get_row_by_page_id(before, old) + 1].page_id
                    = old_to_new_ids[old]

====
